---------------------------- MODULE Spec2Model ----------------------------
(***************************************************************************)
(* A model of the three programs of the repository:                        *)
(*   - Boggle (src/boggle.cpp): the player's word search, the computer's   *)
(*     exhaustive search and the scoreboard;                               *)
(*   - Life (src/life.cpp, lines 1-396): the generation step and the       *)
(*     simulation loops;                                                   *)
(*   - the maze generator (src/life.cpp, lines 397-615): the wall list and *)
(*     the merged-cell bookkeeping of removeSeparatingWalls.               *)
(* Each program has its own specification (SpecBoggle, SpecLife, SpecMaze);*)
(* the variables of the other two programs keep their idle values.         *)
(***************************************************************************)
EXTENDS Integers, Sequences, FiniteSets, Bags, TLC

VARIABLES
    \* ---- Boggle ----
    boggleBoard,     \* Grid<char>: cell -> letter
    english,         \* Lexicon: the set of words it stores (lower case)
    playerAnswers,   \* Set<string> of main / playerTurn
    scoreboard,      \* bag of <<word, player>>: the calls of recordWordForPlayer
    highlighted,     \* cubes whose highlight flag is on (highlightCube)
    wordPath,        \* Set<coord> of the last top-level tryPlayerGuess, at its return
    lastGuess,       \* playerGuess of the last top-level tryPlayerGuess, at its return
    message,         \* what the last top-level tryPlayerGuess printed / did
    gridAccess,      \* the positions (row, col) at which the last turn read
                     \* boggleBoard[row][col]
    pathRestored,    \* whether every call of the recursive tryPlayerGuess that
                     \* returned false in the last top-level tryPlayerGuess left
                     \* wordPath and playerAnswers as they were at its entry
    turn             \* where main is: "player" (playerTurn reads a line), "returned"
                     \* (tryPlayerGuess has returned), "computer", "over"

VARIABLES
    \* ---- Life ----
    lifeBoard,           \* Grid<int>: cell -> age
    hasSimulationEnded,  \* the flag of runSimulation
    previousBoard,       \* the board advanceBoard was last called with, before
                         \* the call changed it; << >> before the first call
    simState             \* "running": in the loop; "quit": left by the user;
                         \* "ended": left because the flag is set

boggleVars == <<boggleBoard, english, playerAnswers, scoreboard, highlighted,
                wordPath, lastGuess, message, gridAccess, pathRestored, turn>>

VARIABLES
    \* ---- Maze generator ----
    mazeCells,       \* the cells of the maze (cellList as main fills it)
    unshuffledWallVector, \* shuffleWalls: the walls not drawn yet
    shuffledWalls,   \* shuffleWalls: the walls drawn so far, in the order drawn
    wallOrder,       \* the walls of wallOrder at the indexes the loop of
                     \* removeSeparatingWalls has not reached yet
    mergedCells,     \* Vector<Set<cell>> of removeSeparatingWalls
    unmergedCells,   \* Set<cell>, the cells in no merged set
    removedWalls,    \* the walls given to finalWindow.removeWall
    testWall,        \* the wall of the last pass of the loop (testCellOne, testCellTwo)
    cellsAreSame,    \* the flag of the last pass of the loop
    mazeState        \* "grid": an N x N maze is built; "chain": the walls of three
                     \* cells A-B, B-C, A-C are processed; "error": the program
                     \* has stopped on an index outside mergedCells

lifeVars == <<lifeBoard, hasSimulationEnded, previousBoard, simState>>

mazeVars == <<mazeCells, unshuffledWallVector, shuffledWalls, wallOrder, mergedCells, unmergedCells, removedWalls,
              testWall, cellsAreSame, mazeState>>

vars == <<boggleVars, lifeVars, mazeVars>>

-----------------------------------------------------------------------------
(* Bounds of the Boggle model *)

BoardRows == 2
BoardCols == 3

(* Program constants *)
kMinGuessLength == 4

-----------------------------------------------------------------------------
(* Characters and strings.  A string is a sequence of one-character strings. *)

Letters == {"A", "B"}
LowerLetters == {"a", "b"}

toUpperChar(ch) == CASE ch = "a" -> "A" [] ch = "b" -> "B" [] OTHER -> ch
toLowerChar(ch) == CASE ch = "A" -> "a" [] ch = "B" -> "b" [] OTHER -> ch

toUpperCase(s) == [k \in 1..Len(s) |-> toUpperChar(s[k])]
toLowerCase(s) == [k \in 1..Len(s) |-> toLowerChar(s[k])]

\* playerGuess.find(buildingWord) == 0 : buildingWord is a prefix of playerGuess
findAtZero(playerGuess, buildingWord) ==
    /\ Len(buildingWord) <= Len(playerGuess)
    /\ SubSeq(playerGuess, 1, Len(buildingWord)) = buildingWord

\* Lexicon::contains and Lexicon::containsPrefix, both case-insensitive
LexiconContains(lex, word) == toLowerCase(word) \in lex
LexiconContainsPrefix(lex, prefix) ==
    \E w \in lex : findAtZero(w, toLowerCase(prefix))

-----------------------------------------------------------------------------
(* The grid *)

Cells == (0..(BoardRows - 1)) \X (0..(BoardCols - 1))

inBounds(row, col) == row >= 0 /\ row < BoardRows /\ col >= 0 /\ col < BoardCols

\* the order of the two nested loops "for i = -1..1, for j = -1..1"
Shifts == << <<-1, -1>>, <<-1, 0>>, <<-1, 1>>,
             << 0, -1>>, << 0, 0>>, << 0, 1>>,
             << 1, -1>>, << 1, 0>>, << 1, 1>> >>

\* the order of the two nested loops over the rows and the columns
RowMajor == [k \in 1..(BoardRows * BoardCols) |->
                <<(k - 1) \div BoardCols, (k - 1) % BoardCols>>]

\* isShiftValid without the call of inBounds
isShiftValidAnywhere(initRow, initCol, deltRow, deltCol) ==
    (deltRow # 0 \/ deltCol # 0)

isShiftValid(initRow, initCol, deltRow, deltCol) ==
    /\ (deltRow # 0 \/ deltCol # 0)
    /\ inBounds(initRow + deltRow, initCol + deltCol)

\* boggleBoard[row][col].  Grid raises an error for a position outside the
\* grid; the model then reads "outside", which is no letter, so that the
\* caller matches nothing there.
gridAt(board, row, col) ==
    IF <<row, col>> \in DOMAIN board THEN board[<<row, col>>] ELSE "outside"

-----------------------------------------------------------------------------
(* The player's search *)

Max2(a, b) == IF a >= b THEN a ELSE b

RECURSIVE tryPlayerGuessRec(_, _, _, _, _, _, _), tryPlayerGuessLoop(_, _, _, _, _, _, _, _)

\* what a call of the recursive tryPlayerGuess returns with, given what it did
\* (out): restored tells whether every call that has returned false so far,
\* this one included, left wordPath and playerAnswers as they were at its entry
returnedFrom(out, answers, path) ==
    [out EXCEPT !.restored = /\ @
                             /\ (out.found \/ (/\ out.wordPath = path
                                                /\ out.playerAnswers = answers))]

\* the recursive tryPlayerGuess with "playerAnswers.add(playerGuess)" as its
\* first statement
tryPlayerGuessRecAddsFirst(board, answers, playerGuess, buildingWord0, rowIndex, colIndex, path) ==
    LET buildingWord == Append(buildingWord0, gridAt(board, rowIndex, colIndex))
        out == IF ~findAtZero(playerGuess, buildingWord)
               THEN [found |-> FALSE, playerAnswers |-> answers \cup {playerGuess},
                     wordPath |-> path, lit |-> {},
                     reads |-> {<<rowIndex, colIndex>>}, restored |-> TRUE,
                     depth |-> Len(buildingWord)]
               ELSE IF playerGuess = buildingWord
               THEN [found |-> TRUE,
                     playerAnswers |-> answers \cup {playerGuess},
                     wordPath |-> path \cup {<<rowIndex, colIndex>>},
                     lit |-> {<<rowIndex, colIndex>>},
                     reads |-> {<<rowIndex, colIndex>>}, restored |-> TRUE,
                     depth |-> Len(buildingWord)]
               ELSE LET res == tryPlayerGuessLoop(board, answers \cup {playerGuess},
                                                  playerGuess, buildingWord,
                                                  rowIndex, colIndex, path, 1)
                    IN  [res EXCEPT !.reads = @ \cup {<<rowIndex, colIndex>>},
                                    !.depth = Max2(@, Len(buildingWord))]
    IN  returnedFrom(out, answers, path)

\* The recursive tryPlayerGuess.  The reference parameters playerAnswers and
\* wordPath are returned as they are when the call returns, with the result of
\* the call (found), the cubes it highlighted and the depth of the deepest call
\* made (depth); the depth of a call is the length of its buildingWord.
tryPlayerGuessRec(board, answers, playerGuess, buildingWord0, rowIndex, colIndex, path) ==
    LET buildingWord == Append(buildingWord0, gridAt(board, rowIndex, colIndex))
        out == IF ~findAtZero(playerGuess, buildingWord)
               THEN [found |-> FALSE, playerAnswers |-> answers, wordPath |-> path,
                     lit |-> {},
                     reads |-> {<<rowIndex, colIndex>>}, restored |-> TRUE,
                     depth |-> Len(buildingWord)]
               ELSE IF playerGuess = buildingWord
               THEN [found |-> TRUE,
                     playerAnswers |-> answers \cup {playerGuess},
                     wordPath |-> path \cup {<<rowIndex, colIndex>>},
                     lit |-> {<<rowIndex, colIndex>>},
                     reads |-> {<<rowIndex, colIndex>>}, restored |-> TRUE,
                     depth |-> Len(buildingWord)]
               ELSE LET res == tryPlayerGuessLoop(board, answers, playerGuess, buildingWord,
                                                  rowIndex, colIndex, path, 1)
                    IN  [res EXCEPT !.reads = @ \cup {<<rowIndex, colIndex>>},
                                    !.depth = Max2(@, Len(buildingWord))]
    IN  returnedFrom(out, answers, path)

\* what the loops return with after an attempt that failed (res) and the
\* attempts made after it (rest): the result of the later attempts, with the
\* cells read, the depth reached and the record of the restoring of both
mergeAttempts(rest, res) ==
    [rest EXCEPT !.reads = @ \cup res.reads,
                 !.restored = @ /\ res.restored,
                 !.depth = Max2(@, res.depth)]

\* tryPlayerGuessAttempted without "wordPath.remove(nextPos)" after a failed attempt
tryPlayerGuessAttemptedNoRemove(res, board, playerGuess, buildingWord, rowIndex, colIndex, nextPos, k) ==
    IF res.found
    THEN [res EXCEPT !.lit = @ \cup {<<rowIndex, colIndex>>}]
    ELSE mergeAttempts(tryPlayerGuessLoop(board, res.playerAnswers, playerGuess,
                                          buildingWord, rowIndex, colIndex,
                                          res.wordPath, k + 1),
                       res)

\* tryPlayerGuessAttempted with "highlightCube(rowIndex, colIndex, true)" before
\* the test of the result of the recursive call
tryPlayerGuessAttemptedLightsFirst(res, board, playerGuess, buildingWord, rowIndex, colIndex, nextPos, k) ==
    IF res.found
    THEN [res EXCEPT !.lit = @ \cup {<<rowIndex, colIndex>>}]
    ELSE [mergeAttempts(tryPlayerGuessLoop(board, res.playerAnswers, playerGuess,
                                           buildingWord, rowIndex, colIndex,
                                           res.wordPath \ {nextPos}, k + 1),
                        res)
            EXCEPT !.lit = @ \cup res.lit \cup {<<rowIndex, colIndex>>}]

\* The body of the loops of the recursive tryPlayerGuess after the recursive
\* call for nextPos has returned with res (lines 379-385): the cube is
\* highlighted and true returned, or nextPos is removed from wordPath and the
\* loops go on with the k+1-th shift.
tryPlayerGuessAttempted(res, board, playerGuess, buildingWord, rowIndex, colIndex, nextPos, k) ==
    IF res.found
    THEN [res EXCEPT !.lit = @ \cup {<<rowIndex, colIndex>>}]
    ELSE mergeAttempts(tryPlayerGuessLoop(board, res.playerAnswers, playerGuess,
                                          buildingWord, rowIndex, colIndex,
                                          res.wordPath \ {nextPos}, k + 1),
                       res)

\* tryPlayerGuessLoop without the test "!wordPath.contains(nextPos)"
tryPlayerGuessLoopReuse(board, answers, playerGuess, buildingWord, rowIndex, colIndex, path, k) ==
    IF k > Len(Shifts)
    THEN [found |-> FALSE, playerAnswers |-> answers, wordPath |-> path, lit |-> {},
          reads |-> {}, restored |-> TRUE, depth |-> 0]
    ELSE LET i == Shifts[k][1]
             j == Shifts[k][2]
             nextPos == <<rowIndex + i, colIndex + j>>
         IN  IF isShiftValid(rowIndex, colIndex, i, j)
             THEN tryPlayerGuessAttempted(
                      tryPlayerGuessRec(board, answers, playerGuess, buildingWord,
                                        rowIndex + i, colIndex + j, path \cup {nextPos}),
                      board, playerGuess, buildingWord, rowIndex, colIndex, nextPos, k)
             ELSE tryPlayerGuessLoop(board, answers, playerGuess, buildingWord,
                                     rowIndex, colIndex, path, k + 1)

\* tryPlayerGuessLoop without "wordPath.add(nextPos)" before the recursive call
tryPlayerGuessLoopNoAdd(board, answers, playerGuess, buildingWord, rowIndex, colIndex, path, k) ==
    IF k > Len(Shifts)
    THEN [found |-> FALSE, playerAnswers |-> answers, wordPath |-> path, lit |-> {},
          reads |-> {}, restored |-> TRUE, depth |-> 0]
    ELSE LET i == Shifts[k][1]
             j == Shifts[k][2]
             nextPos == <<rowIndex + i, colIndex + j>>
         IN  IF isShiftValid(rowIndex, colIndex, i, j) /\ nextPos \notin path
             THEN tryPlayerGuessAttempted(
                      tryPlayerGuessRec(board, answers, playerGuess, buildingWord,
                                        rowIndex + i, colIndex + j, path),
                      board, playerGuess, buildingWord, rowIndex, colIndex, nextPos, k)
             ELSE tryPlayerGuessLoop(board, answers, playerGuess, buildingWord,
                                     rowIndex, colIndex, path, k + 1)

\* The two nested loops of the recursive tryPlayerGuess, from the k-th shift on.
tryPlayerGuessLoop(board, answers, playerGuess, buildingWord, rowIndex, colIndex, path, k) ==
    IF k > Len(Shifts)
    THEN [found |-> FALSE, playerAnswers |-> answers, wordPath |-> path, lit |-> {},
          reads |-> {}, restored |-> TRUE, depth |-> 0]
    ELSE LET i == Shifts[k][1]
             j == Shifts[k][2]
             nextPos == <<rowIndex + i, colIndex + j>>
         IN  IF isShiftValid(rowIndex, colIndex, i, j) /\ nextPos \notin path
             THEN tryPlayerGuessAttempted(
                      tryPlayerGuessRec(board, answers, playerGuess, buildingWord,
                                        rowIndex + i, colIndex + j, path \cup {nextPos}),
                      board, playerGuess, buildingWord, rowIndex, colIndex, nextPos, k)
             ELSE tryPlayerGuessLoop(board, answers, playerGuess, buildingWord,
                                     rowIndex, colIndex, path, k + 1)

RECURSIVE tryPlayerGuessStarts(_, _, _, _)

\* the loops of the top-level tryPlayerGuess after the call for the k-th
\* starting cell has returned with res
tryPlayerGuessStarted(res, board, playerGuess, k) ==
    IF res.found \/ k = Len(RowMajor)
    THEN res
    ELSE mergeAttempts(tryPlayerGuessStarts(board, res.playerAnswers, playerGuess, k + 1),
                       res)

\* the call the top-level tryPlayerGuess makes for the starting cell pos, with
\* a wordPath of its own that holds pos
tryPlayerGuessFrom(board, answers, playerGuess, pos) ==
    tryPlayerGuessRec(board, answers, playerGuess, <<>>, pos[1], pos[2], {pos})

\* the loop over the starting cells with the rows and columns counted down
tryPlayerGuessStartsBackwards(board, answers, playerGuess, k) ==
    tryPlayerGuessStarted(
        tryPlayerGuessFrom(board, answers, playerGuess, RowMajor[Len(RowMajor) + 1 - k]),
        board, playerGuess, k)

\* The loops of the top-level tryPlayerGuess over the starting cells, from the
\* k-th cell on; each starting cell has its own wordPath.
tryPlayerGuessStarts(board, answers, playerGuess, k) ==
    tryPlayerGuessStarted(tryPlayerGuessFrom(board, answers, playerGuess, RowMajor[k]),
                          board, playerGuess, k)

\* clearBoard: the cubes still highlighted after it
clearBoard(lit, path) == lit \ path

\* the top-level tryPlayerGuess after its loops over the board, which ended
\* with res: the word is recorded and the board cleared, or the word is said
\* not to be on the board
tryPlayerGuessSearched(res, score, lit, playerGuess) ==
    [playerAnswers |-> res.playerAnswers,
     scoreboard |-> IF res.found
                    THEN score (+) SetToBag({<<playerGuess, "HUMAN">>})
                    ELSE score,
     highlighted |-> IF res.found
                     THEN clearBoard(lit \cup res.lit, res.wordPath)
                     ELSE lit \cup res.lit,
     wordPath |-> res.wordPath,
     lastGuess |-> playerGuess,
     gridAccess |-> res.reads,
     pathRestored |-> res.restored,
     message |-> IF res.found THEN "recorded" ELSE "notOnBoard"]

\* the top-level tryPlayerGuess without the test "playerAnswers.contains"
tryPlayerGuessNoRepeatTest(board, answers, score, lit, rawGuess, lex) ==
    LET quiet == [playerAnswers |-> answers, scoreboard |-> score, highlighted |-> lit,
                  wordPath |-> {}, lastGuess |-> rawGuess, gridAccess |-> {},
                  pathRestored |-> TRUE] IN
    IF Len(rawGuess) < kMinGuessLength
    THEN quiet @@ [message |-> "tooShort"]
    ELSE IF ~LexiconContains(lex, rawGuess)
    THEN quiet @@ [message |-> "notEnglish"]
    ELSE tryPlayerGuessSearched(
             tryPlayerGuessStarts(board, answers, toUpperCase(rawGuess), 1),
             score, lit, toUpperCase(rawGuess))

\* The top-level tryPlayerGuess: the values of the state it leaves.
tryPlayerGuess(board, answers, score, lit, rawGuess, lex) ==
    LET quiet == [playerAnswers |-> answers, scoreboard |-> score, highlighted |-> lit,
                  wordPath |-> {}, lastGuess |-> rawGuess, gridAccess |-> {},
                  pathRestored |-> TRUE] IN
    IF Len(rawGuess) < kMinGuessLength
    THEN [quiet EXCEPT !.lastGuess = rawGuess] @@ [message |-> "tooShort"]
    ELSE IF ~LexiconContains(lex, rawGuess)
    THEN quiet @@ [message |-> "notEnglish"]
    ELSE IF toUpperCase(rawGuess) \in answers
    THEN [quiet EXCEPT !.lastGuess = toUpperCase(rawGuess)] @@ [message |-> "alreadyGuessed"]
    ELSE tryPlayerGuessSearched(
             tryPlayerGuessStarts(board, answers, toUpperCase(rawGuess), 1),
             score, lit, toUpperCase(rawGuess))

-----------------------------------------------------------------------------
(* The computer's search *)

RECURSIVE generateAllPossibleWords(_, _, _, _, _, _, _), generateLoop(_, _, _, _, _, _, _, _)

\* generateAllPossibleWords from its line 498 on: the test of the prefix and the
\* two nested loops
generateDescend(board, acc, lex, rowIndex, colIndex, buildingWord, path) ==
    IF ~LexiconContainsPrefix(lex, buildingWord)
    THEN acc
    ELSE generateLoop(board, acc, lex, rowIndex, colIndex, buildingWord, path, 1)

\* generateAllPossibleWords without the test "!wordsSpottedSoFar.contains(buildingWord)"
generateAllPossibleWordsAgain(board, acc, lex, rowIndex, colIndex, buildingWord0, path) ==
    LET buildingWord == Append(buildingWord0, gridAt(board, rowIndex, colIndex))
        acc1 == [acc EXCEPT !.reads = @ \cup {<<rowIndex, colIndex>>},
                            !.depth = Max2(@, Len(buildingWord))]
    IN
    IF /\ acc1.spotted = acc1.spotted
       /\ Len(buildingWord) >= kMinGuessLength
       /\ LexiconContains(lex, buildingWord)
    THEN generateDescend(board,
                         [spotted |-> acc1.spotted \cup {buildingWord},
                          scoreboard |-> acc1.scoreboard
                                           (+) SetToBag({<<buildingWord, "COMPUTER">>}),
                          reads |-> acc1.reads, depth |-> acc1.depth],
                         lex, rowIndex, colIndex, buildingWord, path)
    ELSE generateDescend(board, acc1, lex, rowIndex, colIndex, buildingWord, path)

\* acc holds the two things the search changes, wordsSpottedSoFar (spotted) and
\* the scoreboard, with the positions of the board read so far (reads) and the
\* depth of the deepest call so far (depth); the depth of a call is the length
\* of its buildingWord.  wordPath is passed by value.  The three tests of the
\* condition have no effect on the state; the lookup in wordsSpottedSoFar is
\* written first so that TLC evaluates acc at the entry of every call.
generateAllPossibleWords(board, acc, lex, rowIndex, colIndex, buildingWord0, path) ==
    LET buildingWord == Append(buildingWord0, gridAt(board, rowIndex, colIndex))
        acc1 == [acc EXCEPT !.reads = @ \cup {<<rowIndex, colIndex>>},
                            !.depth = Max2(@, Len(buildingWord))]
    IN
    IF /\ buildingWord \notin acc1.spotted
       /\ Len(buildingWord) >= kMinGuessLength
       /\ LexiconContains(lex, buildingWord)
    THEN generateDescend(board,
                         [spotted |-> acc1.spotted \cup {buildingWord},
                          scoreboard |-> acc1.scoreboard
                                           (+) SetToBag({<<buildingWord, "COMPUTER">>}),
                          reads |-> acc1.reads, depth |-> acc1.depth],
                         lex, rowIndex, colIndex, buildingWord, path)
    ELSE generateDescend(board, acc1, lex, rowIndex, colIndex, buildingWord, path)

\* generateLoop without the test "!wordPath.contains(nextPos)"
generateLoopReuse(board, acc, lex, rowIndex, colIndex, buildingWord, path, k) ==
    IF k > Len(Shifts)
    THEN acc
    ELSE LET i == Shifts[k][1]
             j == Shifts[k][2]
             nextPos == <<rowIndex + i, colIndex + j>>
         IN  IF isShiftValid(rowIndex, colIndex, i, j)
             THEN generateLoop(board,
                               generateAllPossibleWords(board, acc, lex, rowIndex + i,
                                                        colIndex + j, buildingWord,
                                                        path \cup {nextPos}),
                               lex, rowIndex, colIndex, buildingWord,
                               (path \cup {nextPos}) \ {nextPos}, k + 1)
             ELSE generateLoop(board, acc, lex, rowIndex, colIndex, buildingWord, path, k + 1)

generateLoop(board, acc, lex, rowIndex, colIndex, buildingWord, path, k) ==
    IF k > Len(Shifts)
    THEN acc
    ELSE LET i == Shifts[k][1]
             j == Shifts[k][2]
             nextPos == <<rowIndex + i, colIndex + j>>
         IN  IF isShiftValid(rowIndex, colIndex, i, j) /\ nextPos \notin path
             THEN generateLoop(board,
                               generateAllPossibleWords(board, acc, lex, rowIndex + i,
                                                        colIndex + j, buildingWord,
                                                        path \cup {nextPos}),
                               lex, rowIndex, colIndex, buildingWord,
                               (path \cup {nextPos}) \ {nextPos}, k + 1)
             ELSE generateLoop(board, acc, lex, rowIndex, colIndex, buildingWord, path, k + 1)

RECURSIVE computerTurnLoop(_, _, _, _, _)

computerTurnLoop(board, acc, lex, path, k) ==
    IF k > Len(RowMajor)
    THEN acc
    ELSE LET pos == RowMajor[k] IN
         computerTurnLoop(board,
                          generateAllPossibleWords(board, acc, lex, pos[1], pos[2], <<>>,
                                                   path \cup {pos}),
                          lex, (path \cup {pos}) \ {pos}, k + 1)

computerTurn(board, wordsAlreadySpotted, score, lex) ==
    computerTurnLoop(board,
                     [spotted |-> wordsAlreadySpotted, scoreboard |-> score, reads |-> {},
                      depth |-> 0],
                     lex, {}, 1)

-----------------------------------------------------------------------------
(* The inputs of the Boggle model *)

\* the words the dictionaries are made of, as the Lexicon stores them
ShortWord == <<"a", "b", "a">>
WordPool == { <<"a", "b", "a", "b">>, <<"a", "b", "a", "b", "a">>, <<"a", "b", "b", "a">> }
Dictionaries == { {ShortWord} \cup d : d \in SUBSET WordPool }

\* what the player may type: the words of the pool, the short word and a word
\* of no dictionary, each in lower case, in upper case and capitalised
capitalise(s) == [k \in 1..Len(s) |-> IF k = 1 THEN toUpperChar(s[k]) ELSE toLowerChar(s[k])]
GuessWords == WordPool \cup {ShortWord, <<"b", "a", "a", "b">>}
Guesses == GuessWords \cup {toUpperCase(g) : g \in GuessWords}
                      \cup {capitalise(g) : g \in GuessWords}

-----------------------------------------------------------------------------
(* Boggle: the state machine of main *)

InitBoggle ==
    /\ boggleBoard \in [Cells -> Letters]
    /\ english \in Dictionaries
    /\ playerAnswers = {}
    /\ scoreboard = EmptyBag
    /\ highlighted = {}
    /\ wordPath = {}
    /\ lastGuess = <<>>
    /\ message = "none"
    /\ gridAccess = {}
    /\ pathRestored = TRUE
    /\ turn = "player"

\* playerTurn: one non-empty line typed by the player, and the call of the
\* top-level tryPlayerGuess it causes
PlayerGuess ==
    /\ UNCHANGED <<lifeVars, mazeVars>>
    /\ turn = "player"
    /\ \E g \in Guesses :
         LET r == tryPlayerGuess(boggleBoard, playerAnswers, scoreboard, highlighted, g, english)
         IN  /\ playerAnswers' = r.playerAnswers
             /\ scoreboard' = r.scoreboard
             /\ highlighted' = r.highlighted
             /\ wordPath' = r.wordPath
             /\ lastGuess' = r.lastGuess
             /\ message' = r.message
             /\ gridAccess' = r.gridAccess
             /\ pathRestored' = r.pathRestored
    /\ turn' = "returned"
    /\ UNCHANGED <<boggleBoard, english>>

\* playerTurn: tryPlayerGuess has returned and the loop asks for the next word;
\* the locals of the call are gone
PlayerPrompt ==
    /\ UNCHANGED <<lifeVars, mazeVars>>
    /\ turn = "returned"
    /\ turn' = "player"
    /\ wordPath' = {}
    /\ lastGuess' = <<>>
    /\ message' = "none"
    /\ gridAccess' = {}
    /\ pathRestored' = TRUE
    /\ UNCHANGED <<boggleBoard, english, playerAnswers, scoreboard, highlighted>>

\* playerTurn: the empty line ends the player's turn
PlayerDone ==
    /\ UNCHANGED <<lifeVars, mazeVars>>
    /\ turn = "player"
    /\ turn' = "computer"
    /\ UNCHANGED <<boggleBoard, english, playerAnswers, scoreboard, highlighted,
                   wordPath, lastGuess, message, gridAccess, pathRestored>>

ComputerTurn ==
    /\ UNCHANGED <<lifeVars, mazeVars>>
    /\ turn = "computer"
    /\ LET r == computerTurn(boggleBoard, playerAnswers, scoreboard, english)
       IN  /\ playerAnswers' = r.spotted
           /\ scoreboard' = r.scoreboard
           /\ gridAccess' = r.reads
    /\ turn' = "over"
    /\ UNCHANGED <<boggleBoard, english, highlighted, wordPath, lastGuess, message,
                   pathRestored>>

\* main: "Do you want to play again?" answered yes; a new board is made
PlayAgain ==
    /\ UNCHANGED <<lifeVars, mazeVars>>
    /\ turn = "over"
    /\ boggleBoard' \in [Cells -> Letters]
    /\ playerAnswers' = {}
    /\ scoreboard' = EmptyBag
    /\ highlighted' = {}
    /\ wordPath' = {}
    /\ lastGuess' = <<>>
    /\ message' = "none"
    /\ gridAccess' = {}
    /\ pathRestored' = TRUE
    /\ turn' = "player"
    /\ UNCHANGED english

\* the other programs are not running
MazeIdle ==
    /\ mazeCells = {}
    /\ unshuffledWallVector = <<>>
    /\ shuffledWalls = <<>>
    /\ wallOrder = {}
    /\ mergedCells = <<>>
    /\ unmergedCells = {}
    /\ removedWalls = {}
    /\ testWall = <<>>
    /\ cellsAreSame = FALSE
    /\ mazeState = "none"

LifeIdle ==
    /\ lifeBoard = <<>>
    /\ hasSimulationEnded = FALSE
    /\ previousBoard = <<>>
    /\ simState = "none"

NextBoggle == PlayerGuess \/ PlayerPrompt \/ PlayerDone \/ ComputerTurn \/ PlayAgain

\* main of boggle.cpp is the program that runs
BoggleStarts == InitBoggle /\ LifeIdle /\ MazeIdle

SpecBoggle == BoggleStarts /\ [][NextBoggle]_vars

-----------------------------------------------------------------------------
(* Boggle: the reference the searches are compared with.  A simple path is   *)
(* a sequence of distinct cells, each 8-adjacent to the next; the paths are  *)
(* enumerated without any search.                                            *)

Range(f) == {f[x] : x \in DOMAIN f}

\* the length of the longest word the player may type
MaxWordLen == CHOOSE n \in {Len(w) : w \in GuessWords} : \A w \in GuessWords : Len(w) <= n

Adjacent8(c1, c2) ==
    /\ c1 # c2
    /\ c1[1] - c2[1] \in {-1, 0, 1}
    /\ c1[2] - c2[2] \in {-1, 0, 1}

IsSimplePath(p) ==
    /\ \A a, b \in DOMAIN p : a # b => p[a] # p[b]
    /\ \A a \in DOMAIN p : (a + 1) \in DOMAIN p => Adjacent8(p[a], p[a + 1])

SimplePaths == [n \in 1..MaxWordLen |-> {p \in [1..n -> Cells] : IsSimplePath(p)}]

Reads(board, p, word) == \A a \in DOMAIN p : board[p[a]] = word[a]

Spellable(board, word) ==
    /\ Len(word) \in DOMAIN SimplePaths
    /\ \E p \in SimplePaths[Len(word)] : Reads(board, p, word)

\* the words of the dictionary, in upper case, that a brute-force enumeration
\* of the simple paths finds on the board
BoardWords(board, lex) ==
    {toUpperCase(w) : w \in {v \in lex : /\ Len(v) >= kMinGuessLength
                                         /\ Spellable(board, toUpperCase(v))}}

Recorded(word, player) == CopiesIn(<<word, player>>, scoreboard)

-----------------------------------------------------------------------------
(* Boggle: the claims *)

\* C1: a guess of length >= 4 that is in the dictionary and not yet among the
\* player's answers is accepted by the top-level tryPlayerGuess (its upper-case
\* form joins playerAnswers and is recorded for the human) if and only if some
\* simple path of 8-adjacent cells spells it; otherwise playerAnswers and the
\* scoreboard are left as they were.
C1_GuessAcceptedIffSpellable ==
    [][ ( /\ turn = "player"
          /\ turn' = "returned"
          /\ Len(lastGuess') >= kMinGuessLength
          /\ LexiconContains(english, lastGuess')
          /\ lastGuess' \notin playerAnswers )
        => IF Spellable(boggleBoard, lastGuess')
           THEN /\ lastGuess' = toUpperCase(lastGuess')
                /\ playerAnswers' = playerAnswers \cup {lastGuess'}
                /\ scoreboard' = scoreboard (+) SetToBag({<<lastGuess', "HUMAN">>})
           ELSE /\ playerAnswers' = playerAnswers
                /\ scoreboard' = scoreboard ]_vars

\* a lower-case guess has been accepted, and another one was accepted before it
C1_Witness ==
    /\ turn = "returned"
    /\ message = "recorded"
    /\ lastGuess \in playerAnswers
    /\ Cardinality(playerAnswers) = 2
    /\ Spellable(boggleBoard, lastGuess)

\* C2: when the player's search succeeds, wordPath holds exactly the cells of
\* one simple path that reads the guess: as many cells as the guess has
\* letters, and an order of them in which consecutive cells are 8-adjacent,
\* no cell repeats and the letters read the guess.
C2_WordPathIsAPath ==
    (turn = "returned" /\ message = "recorded")
    => /\ Cardinality(wordPath) = Len(lastGuess)
       /\ \E p \in SimplePaths[Len(lastGuess)] :
            /\ Range(p) = wordPath
            /\ Reads(boggleBoard, p, lastGuess)

\* a search that succeeded with a five-letter guess
C2_Witness ==
    /\ turn = "returned"
    /\ message = "recorded"
    /\ Len(lastGuess) = 5
    /\ Cardinality(wordPath) = 5

\* C3: computerTurn started with an empty set ends with the set of exactly the
\* dictionary words of length >= 4 that a simple path spells on the board.
C3_ComputerFindsExactlyTheBoardWords ==
    [][ (turn = "computer" /\ turn' = "over" /\ playerAnswers = {})
        => playerAnswers' = BoardWords(boggleBoard, english) ]_vars

\* the computer, started with the empty set, has found two words or more while
\* the dictionary holds a word of length >= 4 that the board does not spell
C3_Witness ==
    /\ turn = "over"
    /\ \A w \in playerAnswers : Recorded(w, "HUMAN") = 0
    /\ Cardinality(playerAnswers) >= 2
    /\ \E v \in english : Len(v) >= kMinGuessLength /\ toUpperCase(v) \notin playerAnswers

\* C4: within a round every word is recorded on the scoreboard at most once in
\* total, whoever found it.
C4_EveryWordRecordedOnce ==
    \A e \in BagToSet(scoreboard) :
        Recorded(e[1], "HUMAN") + Recorded(e[1], "COMPUTER") = 1

\* the round is over, the player had found a word and the computer found another
C4_Witness ==
    /\ turn = "over"
    /\ \E e \in BagToSet(scoreboard) : e[2] = "HUMAN"
    /\ \E e \in BagToSet(scoreboard) : e[2] = "COMPUTER"

\* C20: backtracking restores the path: every call of the recursive
\* tryPlayerGuess that returns false leaves wordPath as it was when the call
\* was entered and leaves playerAnswers unchanged; a search that fails from
\* every starting cell ends with the wordPath of its last starting cell alone
\* and with the answers it began with.
C20_BacktrackingRestores ==
    [][ (turn = "player" /\ turn' = "returned")
        => /\ pathRestored'
           /\ message' = "notOnBoard"
              => /\ wordPath' = {RowMajor[Len(RowMajor)]}
                 /\ playerAnswers' = playerAnswers ]_vars

\* a search succeeded after calls on other cells had returned false: more
\* cells were read than the path holds
C20_Witness ==
    /\ turn = "returned"
    /\ message = "recorded"
    /\ pathRestored
    /\ wordPath \subseteq gridAccess
    /\ Cardinality(gridAccess) > Cardinality(wordPath) + 1

\* the three messages of the top-level tryPlayerGuess that come before its
\* loops over the board
Rejections == {"tooShort", "notEnglish", "alreadyGuessed"}

\* C15: a guess shorter than kMinGuessLength, or not in the dictionary, or
\* already among the player's answers is rejected before any cell is searched:
\* no wordPath is made, playerAnswers and the scoreboard are unchanged and no
\* cube is highlighted.
C15_RejectedBeforeSearch ==
    [][ ( /\ turn = "player"
          /\ turn' = "returned"
          /\ \/ Len(lastGuess') < kMinGuessLength
             \/ ~LexiconContains(english, lastGuess')
             \/ toUpperCase(lastGuess') \in playerAnswers )
        => /\ message' \in Rejections
           /\ wordPath' = {}
           /\ playerAnswers' = playerAnswers
           /\ scoreboard' = scoreboard
           /\ highlighted' = {} ]_vars

\* a word the board spells and the player has found already is guessed again
C15_Witness ==
    /\ turn = "returned"
    /\ message = "alreadyGuessed"
    /\ lastGuess \in playerAnswers
    /\ Recorded(lastGuess, "HUMAN") = 1
    /\ Spellable(boggleBoard, lastGuess)

\* the order in which the neighbours of a cell are tried
NeighbourOrder == << <<-1, -1>>, <<-1, 0>>, <<-1, 1>>, <<0, -1>>,
                     <<0, 1>>, <<1, -1>>, <<1, 0>>, <<1, 1>> >>

\* the place of the a-th cell of a path among the choices the search has
\* there: of a starting cell in row-major order, of a later cell in the order
\* of the offsets from the cell before it
ChoiceRank(p, a) ==
    IF a = 1
    THEN p[1][1] * BoardCols + p[1][2]
    ELSE CHOOSE k \in DOMAIN NeighbourOrder :
             NeighbourOrder[k] = <<p[a][1] - p[a - 1][1], p[a][2] - p[a - 1][2]>>

\* p and q part at some cell, and there the search tries p's cell first
TriedBefore(p, q) ==
    \E a \in DOMAIN p \cap DOMAIN q :
        /\ \A b \in 1..(a - 1) : p[b] = q[b]
        /\ p[a] # q[a]
        /\ ChoiceRank(p, a) < ChoiceRank(q, a)

IsPrefixOf(p, q) == Len(p) <= Len(q) /\ \A a \in DOMAIN p : p[a] = q[a]

SpellingPaths(board, word) == {p \in SimplePaths[Len(word)] : Reads(board, p, word)}

\* the first, in depth-first order, of the simple paths that spell the word
FirstPath(board, word) ==
    CHOOSE p \in SpellingPaths(board, word) :
        \A q \in SpellingPaths(board, word) : q = p \/ TriedBefore(p, q)

\* the cells a depth-first search enters when it ends at the path it finds:
\* the last cells of the simple paths whose cells before the last spell the
\* beginning of the word, and that are tried before the path or are part of it
EnteredUpTo(board, word, first) ==
    {p[Len(p)] : p \in {q \in UNION {SimplePaths[n] : n \in 1..Len(word)} :
                          /\ Reads(board, SubSeq(q, 1, Len(q) - 1), word)
                          /\ IsPrefixOf(q, first) \/ TriedBefore(q, first)}}

\* C21: when several simple paths spell the guess, the player's search finds
\* the first of them in depth-first order (starting cells row-major,
\* neighbours in the order (-1,-1),(-1,0),(-1,1),(0,-1),(0,1),(1,-1),(1,0),
\* (1,1)) and stops there: it has entered no cell that comes after that path;
\* the path is thus the same for the same board and guess.
C21_FirstPathInDepthFirstOrder ==
    (turn = "returned" /\ message = "recorded")
    => /\ wordPath = Range(FirstPath(boggleBoard, lastGuess))
       /\ gridAccess = EnteredUpTo(boggleBoard, lastGuess,
                                   FirstPath(boggleBoard, lastGuess))

\* a guess was accepted that paths over different sets of cells spell, some of
\* them from a starting cell other than the one of the path found
C21_Witness ==
    /\ turn = "returned"
    /\ message = "recorded"
    /\ \E p, q \in SpellingPaths(boggleBoard, lastGuess) :
         /\ Range(p) = wordPath
         /\ Range(q) # wordPath
         /\ q[1] # p[1]
    /\ \E p \in SpellingPaths(boggleBoard, lastGuess) :
         /\ p[1] = FirstPath(boggleBoard, lastGuess)[1]
         /\ Range(p) # wordPath

\* the cubes the search of the top-level tryPlayerGuess highlights
HighlightedBySearch(board, playerGuess) ==
    tryPlayerGuessStarts(board, {}, playerGuess, 1).lit

\* C24: when a guess has been accepted, the cubes highlighted during the
\* search are the cells of wordPath, and after clearBoard no cube is
\* highlighted when the top-level tryPlayerGuess returns; a guess that is not
\* on the board or is rejected highlights no cube.
C24_NoCubeLeftHighlighted ==
    turn = "returned"
    => /\ highlighted = {}
       /\ message = "recorded" => HighlightedBySearch(boggleBoard, lastGuess) = wordPath
       /\ message = "notOnBoard" => HighlightedBySearch(boggleBoard, lastGuess) = {}

\* a five-letter guess was accepted after attempts on other cells had failed,
\* and its five cubes were highlighted
C24_Witness ==
    /\ turn = "returned"
    /\ message = "recorded"
    /\ highlighted = {}
    /\ Cardinality(HighlightedBySearch(boggleBoard, lastGuess)) = 5
    /\ gridAccess # wordPath

-----------------------------------------------------------------------------
(* Life: bounds and constants *)

LifeRows == 3
LifeCols == 3

\* A generation step is taken only while every age is below AgeLimit: the ages
\* of the program are ints and the model keeps them finite.
AgeLimit == 14

\* life-constants.h
kMaxAge == 12

LifeCells == (0..(LifeRows - 1)) \X (0..(LifeCols - 1))

LifeRowMajor == [k \in 1..(LifeRows * LifeCols) |->
                    <<(k - 1) \div LifeCols, (k - 1) % LifeCols>>]

\* Grid<int> newBoard(numRows, numCols): every cell is 0
EmptyLifeBoard == [c \in LifeCells |-> 0]

-----------------------------------------------------------------------------
(* Life: the generation step *)

\* determineNumNeighbors without the test "(i != 0) || (j != 0)"
determineNumNeighborsAndSelf(rows, cols, neighborBoard) ==
    Cardinality({ sh \in {-1, 0, 1} \X {-1, 0, 1} :
                    /\ (rows + sh[1]) >= 0 /\ (rows + sh[1]) < LifeRows
                    /\ (cols + sh[2]) >= 0 /\ (cols + sh[2]) < LifeCols
                    /\ neighborBoard[<<rows + sh[1], cols + sh[2]>>] # 0 })

\* The two nested loops of determineNumNeighbors add 1 for every shift (i, j)
\* that passes the four tests.
determineNumNeighbors(rows, cols, neighborBoard) ==
    Cardinality({ sh \in {-1, 0, 1} \X {-1, 0, 1} :
                    /\ (rows + sh[1]) >= 0 /\ (rows + sh[1]) < LifeRows
                    /\ (cols + sh[2]) >= 0 /\ (cols + sh[2]) < LifeCols
                    /\ (sh[1] # 0 \/ sh[2] # 0)
                    /\ neighborBoard[<<rows + sh[1], cols + sh[2]>>] # 0 })

\* the positions at which determineNumNeighbors reads neighborBoard (line 335):
\* those of the shifts that pass the tests of lines 332-334
determineNumNeighborsReads(rows, cols) ==
    { <<rows + sh[1], cols + sh[2]>> :
        sh \in { d \in {-1, 0, 1} \X {-1, 0, 1} :
                    /\ (rows + d[1]) >= 0 /\ (rows + d[1]) < LifeRows
                    /\ (cols + d[2]) >= 0 /\ (cols + d[2]) < LifeCols
                    /\ (d[1] # 0 \/ d[2] # 0) } }

\* howIsCellDoing with "numNeighbors >= 4" as its whole result
howIsCellDoingCrowdedOnly(rows, cols, priorBoard, newBoard, ended) ==
    LET numNeighbors == determineNumNeighbors(rows, cols, priorBoard)
        born == numNeighbors = 3 /\ priorBoard[<<rows, cols>>] = 0
    IN  [toxic |-> numNeighbors >= 4,
         newBoard |-> IF born THEN [newBoard EXCEPT ![<<rows, cols>>] = 1] ELSE newBoard,
         ended |-> IF born THEN FALSE ELSE ended]

\* howIsCellDoing: its result (toxic) and the two reference parameters as it
\* leaves them
howIsCellDoing(rows, cols, priorBoard, newBoard, ended) ==
    LET numNeighbors == determineNumNeighbors(rows, cols, priorBoard)
        born == numNeighbors = 3 /\ priorBoard[<<rows, cols>>] = 0
    IN  [toxic |-> (numNeighbors <= 1 \/ numNeighbors >= 4),
         newBoard |-> IF born THEN [newBoard EXCEPT ![<<rows, cols>>] = 1] ELSE newBoard,
         ended |-> IF born THEN FALSE ELSE ended]

\* The body of the two nested loops of createNextBoard for the cell (i, j);
\* st holds newBoard and nextHasSimulationEnded.
createNextBoardCell(priorBoard, st, i, j) ==
    LET aged == IF priorBoard[<<i, j>>] # 0
                THEN [st.newBoard EXCEPT ![<<i, j>>] = priorBoard[<<i, j>>] + 1]
                ELSE st.newBoard
        how == howIsCellDoing(i, j, priorBoard, aged, st.ended)
        newBoard == IF how.toxic THEN [how.newBoard EXCEPT ![<<i, j>>] = 0] ELSE how.newBoard
        ended1 == IF how.toxic /\ priorBoard[<<i, j>>] # 0 THEN FALSE ELSE how.ended
        ended2 == IF newBoard[<<i, j>>] # 0 /\ newBoard[<<i, j>>] # kMaxAge
                  THEN FALSE ELSE ended1
    IN  [newBoard |-> newBoard, ended |-> ended2]

RECURSIVE createNextBoardLoop(_, _, _, _)

\* createNextBoardLoop writing the new age of each cell into priorBoard at once
createNextBoardLoopInPlace(priorBoard, st, order, k) ==
    IF k > Len(order)
    THEN st
    ELSE LET st1 == createNextBoardCell(priorBoard, st, order[k][1], order[k][2])
         IN  createNextBoardLoop([priorBoard EXCEPT ![order[k]] = st1.newBoard[order[k]]],
                                 st1, order, k + 1)

\* the cells of order from the k-th on; st1 is what the pass for the k-th cell
\* leaves, computed before the next pass starts
createNextBoardLoop(priorBoard, st, order, k) ==
    IF k > Len(order)
    THEN st
    ELSE CHOOSE end \in { createNextBoardLoop(priorBoard, st1, order, k + 1) :
                           st1 \in {createNextBoardCell(priorBoard, st, order[k][1],
                                                        order[k][2])} } : TRUE

\* createNextBoard with its loops visiting the cells in the given order
createNextBoardIn(order, priorBoard) ==
    createNextBoardLoop(priorBoard, [newBoard |-> EmptyLifeBoard, ended |-> TRUE], order, 1)

\* createNextBoard: the new value of priorBoard and of nextHasSimulationEnded
createNextBoard(priorBoard) == createNextBoardIn(LifeRowMajor, priorBoard)

\* flagAtEntry without the assignment of line 286
flagAtEntryKept(nextHasSimulationEnded) == nextHasSimulationEnded

\* "nextHasSimulationEnded = true": the flag the loops start with, whatever the
\* caller's flag holds
flagAtEntry(nextHasSimulationEnded) == TRUE

\* createNextBoard as advanceBoard calls it, with the caller's flag passed by
\* reference
createNextBoardCall(priorBoard, nextHasSimulationEnded) ==
    createNextBoardLoop(priorBoard,
                        [newBoard |-> EmptyLifeBoard,
                         ended |-> flagAtEntry(nextHasSimulationEnded)],
                        LifeRowMajor, 1)

-----------------------------------------------------------------------------
(* Life: the state machine of runSimulation *)

\* the loops of the simulation with "while (true)"
simulationGoesOnAlways(nextHasSimulationEnded) == TRUE

\* the test of the loops of runManualSimulation and runAutoSimulation
simulationGoesOn(nextHasSimulationEnded) == ~nextHasSimulationEnded

\* initializeGrid and the first lines of runSimulation
InitLife ==
    /\ lifeBoard \in [LifeCells -> {0, 1}]
    /\ hasSimulationEnded = FALSE
    /\ previousBoard = << >>
    /\ simState = "running"

\* one pass of the loop of runManualSimulation / runAutoSimulation that calls
\* advanceBoard, and the test of the loop that follows it
Advance ==
    /\ UNCHANGED <<boggleVars, mazeVars>>
    /\ simState = "running"
    /\ \A c \in LifeCells : lifeBoard[c] < AgeLimit
    /\ \E r \in {createNextBoardCall(lifeBoard, hasSimulationEnded)} :
           /\ lifeBoard' = r.newBoard
           /\ hasSimulationEnded' = r.ended
           /\ previousBoard' = lifeBoard
           /\ simState' = IF simulationGoesOn(r.ended) THEN "running" ELSE "ended"

\* the user types "quit" (manual) or clicks on the window (auto)
UserStops ==
    /\ UNCHANGED <<boggleVars, mazeVars>>
    /\ simState = "running"
    /\ simState' = "quit"
    /\ UNCHANGED <<lifeBoard, hasSimulationEnded, previousBoard>>

NextLife == Advance \/ UserStops

BoggleIdle ==
    /\ boggleBoard = <<>>
    /\ english = {}
    /\ playerAnswers = {}
    /\ scoreboard = EmptyBag
    /\ highlighted = {}
    /\ wordPath = {}
    /\ lastGuess = <<>>
    /\ message = "none"
    /\ gridAccess = {}
    /\ pathRestored = TRUE
    /\ turn = "none"

\* main of Life is the program that runs
LifeStarts == InitLife /\ BoggleIdle /\ MazeIdle

SpecLife == LifeStarts /\ [][NextLife]_vars

\* The automatic simulation makes its next step by itself, as long as the loop
\* runs; stopping is up to the user.
SpecLifeFair == SpecLife /\ WF_vars(Advance)

-----------------------------------------------------------------------------
(* Maze generator: the walls and the cells *)

\* the largest dimension of the mazes of the model; the smallest is 2
MaxDimension == 3

\* initializeCellWalls without the test "i != j"
initializeCellWallsAllShifts(cellX, cellY, originalDimensions) ==
    LET wallTo(i, j) ==
            IF (cellX + i < originalDimensions) /\ (cellY + j < originalDimensions)
            THEN << [one |-> <<cellX, cellY>>, two |-> <<cellX + i, cellY + j>>] >>
            ELSE << >>
    IN  wallTo(0, 0) \o wallTo(0, 1) \o wallTo(1, 0) \o wallTo(1, 1)

\* the walls initializeCellWalls adds for the cell (cellX, cellY), in the order
\* of its loops: towards the east neighbour, then towards the south neighbour
initializeCellWalls(cellX, cellY, originalDimensions) ==
    LET wallTo(i, j) ==
            IF (cellX + i < originalDimensions) /\ (cellY + j < originalDimensions)
            THEN << [one |-> <<cellX, cellY>>, two |-> <<cellX + i, cellY + j>>] >>
            ELSE << >>
    IN  wallTo(0, 1) \o wallTo(1, 0)

RECURSIVE initialWallVector(_, _)

\* initializeWallsAndChambers: the wall vector after the first k cells, by rows
initialWallVector(initialDimensions, k) ==
    IF k = 0
    THEN << >>
    ELSE initialWallVector(initialDimensions, k - 1)
           \o initializeCellWalls((k - 1) \div initialDimensions,
                                  (k - 1) % initialDimensions, initialDimensions)

\* initializeWallsAndChambers: the cells added to cellList
initialCellList(initialDimensions) ==
    (0..(initialDimensions - 1)) \X (0..(initialDimensions - 1))

-----------------------------------------------------------------------------
(* Maze generator: the bookkeeping of the merged cells *)

\* createNewMergedCell without "origUnmergedCells.remove(unmergedTwo)"
createNewMergedCellOneLeft(origMergedCells, origUnmergedCells, unmergedOne, unmergedTwo) ==
    [mergedCells |-> Append(origMergedCells, {unmergedOne, unmergedTwo}),
     unmergedCells |-> origUnmergedCells \ {unmergedOne},
     stopped |-> FALSE]

createNewMergedCell(origMergedCells, origUnmergedCells, unmergedOne, unmergedTwo) ==
    [mergedCells |-> Append(origMergedCells, {unmergedOne, unmergedTwo}),
     unmergedCells |-> origUnmergedCells \ {unmergedOne, unmergedTwo},
     stopped |-> FALSE]

\* the indexes of the sets that hold the cell
Holding(origMergedCells, someCell) ==
    {i \in 1..Len(origMergedCells) : someCell \in origMergedCells[i]}

Lowest(indexes) == CHOOSE i \in indexes : \A k \in indexes : i <= k
Highest(indexes) == CHOOSE i \in indexes : \A k \in indexes : i >= k

\* addToMergedCell without "origUnmergedCells.remove(unmergedCell)"
addToMergedCellKeep(origMergedCells, origUnmergedCells, mergedCell, unmergedCell) ==
    LET hits == Holding(origMergedCells, mergedCell) IN
    [mergedCells |-> IF hits = {}
                     THEN origMergedCells
                     ELSE [origMergedCells EXCEPT ![Lowest(hits)] = @ \cup {unmergedCell}],
     unmergedCells |-> origUnmergedCells,
     stopped |-> FALSE]

\* the loop stops at the first set that holds mergedCell
addToMergedCell(origMergedCells, origUnmergedCells, mergedCell, unmergedCell) ==
    LET hits == Holding(origMergedCells, mergedCell) IN
    [mergedCells |-> IF hits = {}
                     THEN origMergedCells
                     ELSE [origMergedCells EXCEPT ![Lowest(hits)] = @ \cup {unmergedCell}],
     unmergedCells |-> origUnmergedCells \ {unmergedCell},
     stopped |-> FALSE]

\* Vector::remove
RemoveAt(vec, address) ==
    [k \in 1..(Len(vec) - 1) |-> IF k < address THEN vec[k] ELSE vec[k + 1]]

\* The values addressToSend or addressToEvict may have after the loop: the index
\* of the last set that holds the cell; when no set holds it the variable is
\* never assigned, and it is any index of the vector or (0) an index outside it.
AddressesOf(origMergedCells, someCell) ==
    LET hits == Holding(origMergedCells, someCell) IN
    IF hits # {} THEN {Highest(hits)} ELSE 0..Len(origMergedCells)

\* combineTwoMergedCells removing the set at addressToSend instead of the one
\* at addressToEvict
combineTwoMergedCellsWrongRemove(origMergedCells, origUnmergedCells, mergedOne, mergedTwo) ==
    { IF addressToSend = 0 \/ addressToEvict = 0
      THEN [mergedCells |-> origMergedCells, unmergedCells |-> origUnmergedCells,
            stopped |-> TRUE]
      ELSE [mergedCells |->
                RemoveAt([origMergedCells EXCEPT
                             ![addressToSend] = @ \cup origMergedCells[addressToEvict]],
                         addressToSend),
            unmergedCells |-> origUnmergedCells,
            stopped |-> FALSE] :
      addressToSend \in AddressesOf(origMergedCells, mergedOne),
      addressToEvict \in AddressesOf(origMergedCells, mergedTwo) }

\* combineTwoMergedCells without "origMergedCells.remove(addressToEvict)"
combineTwoMergedCellsKeepsBoth(origMergedCells, origUnmergedCells, mergedOne, mergedTwo) ==
    { IF addressToSend = 0 \/ addressToEvict = 0
      THEN [mergedCells |-> origMergedCells, unmergedCells |-> origUnmergedCells,
            stopped |-> TRUE]
      ELSE [mergedCells |->
                [origMergedCells EXCEPT
                    ![addressToSend] = @ \cup origMergedCells[addressToEvict]],
            unmergedCells |-> origUnmergedCells,
            stopped |-> FALSE] :
      addressToSend \in AddressesOf(origMergedCells, mergedOne),
      addressToEvict \in AddressesOf(origMergedCells, mergedTwo) }

\* combineTwoMergedCells: the outcomes it may have
combineTwoMergedCells(origMergedCells, origUnmergedCells, mergedOne, mergedTwo) ==
    { IF addressToSend = 0 \/ addressToEvict = 0
      THEN [mergedCells |-> origMergedCells, unmergedCells |-> origUnmergedCells,
            stopped |-> TRUE]
      ELSE [mergedCells |->
                RemoveAt([origMergedCells EXCEPT
                             ![addressToSend] = @ \cup origMergedCells[addressToEvict]],
                         addressToEvict),
            unmergedCells |-> origUnmergedCells,
            stopped |-> FALSE] :
      addressToSend \in AddressesOf(origMergedCells, mergedOne),
      addressToEvict \in AddressesOf(origMergedCells, mergedTwo) }

\* sameMergedCell with "||" in the place of "&&"
sameMergedCellEither(merged, testCellOne, testCellTwo) ==
    \E j \in 1..Len(merged) : testCellOne \in merged[j] \/ testCellTwo \in merged[j]

\* the loop of removeSeparatingWalls over mergedCells that sets cellsAreSame
sameMergedCell(merged, testCellOne, testCellTwo) ==
    \E j \in 1..Len(merged) : testCellOne \in merged[j] /\ testCellTwo \in merged[j]

\* the four cases of removeSeparatingWalls for a wall that is removed: the
\* outcomes the bookkeeping may have
mergeCases(merged, unmerged, testCellOne, testCellTwo) ==
    IF testCellOne \in unmerged /\ testCellTwo \in unmerged
    THEN {createNewMergedCell(merged, unmerged, testCellOne, testCellTwo)}
    ELSE IF testCellOne \notin unmerged /\ testCellTwo \in unmerged
    THEN {addToMergedCell(merged, unmerged, testCellOne, testCellTwo)}
    ELSE IF testCellOne \in unmerged /\ testCellTwo \notin unmerged
    THEN {addToMergedCell(merged, unmerged, testCellTwo, testCellOne)}
    ELSE combineTwoMergedCells(merged, unmerged, testCellOne, testCellTwo)

-----------------------------------------------------------------------------
(* Maze generator: shuffleWalls *)

\* the mazes of dimension up to MaxShuffledDimension have the draws of
\* shuffleWalls as steps of the model
MaxShuffledDimension == 2

\* one pass of the loop of shuffleWalls that gets the wall at randomOrdering
\* and removes the wall at index 0
shuffleWallsDrawRemoveFirst(unshuffled, shuffled, randomOrdering) ==
    [unshuffled |-> RemoveAt(unshuffled, 1),
     shuffled |-> Append(shuffled, unshuffled[randomOrdering + 1])]

\* one pass of the loop of shuffleWalls with the value randomInteger returned
\* (indexes of Vector start at 0, those of the model at 1)
shuffleWallsDraw(unshuffled, shuffled, randomOrdering) ==
    [unshuffled |-> RemoveAt(unshuffled, randomOrdering + 1),
     shuffled |-> Append(shuffled, unshuffled[randomOrdering + 1])]

RECURSIVE shuffleWallsFrom(_, _)

\* the vectors the loop of shuffleWalls may end with, over all the values
\* randomInteger(0, size - 1) may return in each pass
shuffleWallsFrom(unshuffled, shuffled) ==
    IF unshuffled = << >>
    THEN {shuffled}
    ELSE UNION { LET r == shuffleWallsDraw(unshuffled, shuffled, randomOrdering)
                 IN  shuffleWallsFrom(r.unshuffled, r.shuffled) :
                 randomOrdering \in 0..(Len(unshuffled) - 1) }

\* shuffleWalls: the vectors it may return
shuffleWalls(unshuffledWallVector0) == shuffleWallsFrom(unshuffledWallVector0, << >>)

-----------------------------------------------------------------------------
(* Maze generator: the state machine *)

\* the three cells and the three walls of the chain A-B, B-C, A-C
ChainA == <<0, 0>>
ChainB == <<0, 1>>
ChainC == <<0, 2>>
ChainWalls == { [one |-> ChainA, two |-> ChainB], [one |-> ChainB, two |-> ChainC],
                [one |-> ChainA, two |-> ChainC] }
ChainWallVector == << [one |-> ChainA, two |-> ChainB], [one |-> ChainB, two |-> ChainC],
                      [one |-> ChainA, two |-> ChainC] >>

\* the wall vector initializeWallsAndChambers gives to shuffleWalls
unshuffledWalls(dimension) == initialWallVector(dimension, dimension * dimension)

\* what shuffleWalls starts with in the model: the wall vector when the draws
\* are steps, nothing when the order is left open
drawnFrom(dimension) ==
    IF dimension <= MaxShuffledDimension THEN unshuffledWalls(dimension) ELSE << >>

\* The state in which shuffleWalls starts.  wallOrder holds the walls
\* removeSeparatingWalls has not processed yet.  For the chain and the mazes of
\* dimension up to MaxShuffledDimension every draw of shuffleWalls is a step,
\* and removeSeparatingWalls then reads shuffledWalls from its last index down.
\* For the larger mazes the draws are not steps: shuffleWalls may return the
\* walls in any order, the loop of removeSeparatingWalls reads the entry at
\* index i only when it reaches it, and each pass takes any wall of wallOrder.
InitMaze ==
    /\ \/ \E dimension \in 2..MaxDimension :
            /\ mazeCells = initialCellList(dimension)
            /\ wallOrder = Range(unshuffledWalls(dimension))
            /\ unshuffledWallVector = drawnFrom(dimension)
            /\ mazeState = "grid"
       \/ /\ mazeCells = {ChainA, ChainB, ChainC}
          /\ wallOrder = ChainWalls
          /\ unshuffledWallVector = ChainWallVector
          /\ mazeState = "chain"
    /\ shuffledWalls = << >>
    /\ mergedCells = << >>
    /\ unmergedCells = mazeCells
    /\ removedWalls = {}
    /\ testWall = << >>
    /\ cellsAreSame = FALSE

\* one pass of the loop of shuffleWalls
ShuffleDraw ==
    /\ UNCHANGED <<boggleVars, lifeVars>>
    /\ mazeState \in {"grid", "chain"}
    /\ unshuffledWallVector # << >>
    /\ \E randomOrdering \in 0..(Len(unshuffledWallVector) - 1) :
         LET r == shuffleWallsDraw(unshuffledWallVector, shuffledWalls, randomOrdering)
         IN  /\ unshuffledWallVector' = r.unshuffled
             /\ shuffledWalls' = r.shuffled
    /\ UNCHANGED <<mazeCells, wallOrder, mergedCells, unmergedCells, removedWalls,
                   testWall, cellsAreSame, mazeState>>

\* one pass of the loop of removeSeparatingWalls
ProcessWall ==
    /\ UNCHANGED <<boggleVars, lifeVars>>
    /\ mazeState \in {"grid", "chain"}
    /\ unshuffledWallVector = << >>
    /\ \E w \in wallOrder :
         LET same == sameMergedCell(mergedCells, w.one, w.two) IN
         /\ shuffledWalls # << >> => w = shuffledWalls[Cardinality(wallOrder)]
         /\ wallOrder' = wallOrder \ {w}
         /\ testWall' = w
         /\ cellsAreSame' = same
         /\ IF same
            THEN UNCHANGED <<removedWalls, mergedCells, unmergedCells, mazeState>>
            ELSE /\ removedWalls' = removedWalls \cup {w}
                 /\ \E r \in mergeCases(mergedCells, unmergedCells, w.one, w.two) :
                      /\ mergedCells' = r.mergedCells
                      /\ unmergedCells' = r.unmergedCells
                      /\ mazeState' = IF r.stopped THEN "error" ELSE mazeState
    /\ UNCHANGED <<mazeCells, unshuffledWallVector, shuffledWalls>>

\* main: the maze is finished and the user asks for another one
NewMaze ==
    /\ UNCHANGED <<boggleVars, lifeVars>>
    /\ mazeState \in {"grid", "chain"}
    /\ wallOrder = {}
    /\ \E dimension \in 2..MaxDimension :
         /\ mazeCells' = initialCellList(dimension)
         /\ wallOrder' = Range(unshuffledWalls(dimension))
         /\ unshuffledWallVector' = drawnFrom(dimension)
    /\ shuffledWalls' = << >>
    /\ mazeState' = "grid"
    /\ mergedCells' = << >>
    /\ unmergedCells' = mazeCells'
    /\ removedWalls' = {}
    /\ testWall' = << >>
    /\ cellsAreSame' = FALSE

NextMaze == ShuffleDraw \/ ProcessWall \/ NewMaze

\* main of the maze generator is the program that runs
MazeStarts == InitMaze /\ BoggleIdle /\ LifeIdle

SpecMaze == MazeStarts /\ [][NextMaze]_vars

\* The loops of shuffleWalls and of removeSeparatingWalls are sequential code:
\* a pass that can be made is made.  Asking for another maze is up to the user.
SpecMazeFair == SpecMaze /\ WF_vars(ShuffleDraw) /\ WF_vars(ProcessWall)


-----------------------------------------------------------------------------
(* Maze generator: the claims *)

RECURSIVE ReachFrom(_, _)

\* the cells reached from the cells of seen through the walls of edges
ReachFrom(edges, seen) ==
    LET next == seen \cup {e.two : e \in {x \in edges : x.one \in seen}}
                     \cup {e.one : e \in {x \in edges : x.two \in seen}}
    IN  IF next = seen THEN seen ELSE ReachFrom(edges, next)

ConnectedVia(edges, a, b) == b \in ReachFrom(edges, {a})

\* C5: when removeSeparatingWalls has processed all the walls of an N x N grid,
\* in whatever order, N*N - 1 walls are removed, every two cells reach each
\* other through removed walls, and no removed wall closes a cycle.
C5_SpanningTree ==
    (mazeState = "grid" /\ wallOrder = {})
    => /\ \E n \in 2..MaxDimension :
            /\ mazeCells = initialCellList(n)
            /\ Cardinality(removedWalls) = n * n - 1
       /\ \A a, b \in mazeCells : ConnectedVia(removedWalls, a, b)
       /\ \A w \in removedWalls : ~ConnectedVia(removedWalls \ {w}, w.one, w.two)

\* a 3 x 3 maze is finished and its last wall was skipped
C5_Witness ==
    /\ mazeState = "grid"
    /\ wallOrder = {}
    /\ Cardinality(mazeCells) = 9
    /\ cellsAreSame
    /\ testWall \notin removedWalls

\* C6: a wall is removed when it is processed if and only if its two cells are
\* not yet connected through the walls removed before it; for the chain
\* processed in the order A-B, B-C, A-C the first two walls are removed and
\* the third is skipped.
C6_RemovedIffNotConnected ==
    /\ testWall # << >>
       => LET before == removedWalls \ {testWall}
              connected == ConnectedVia(before, testWall.one, testWall.two)
          IN  /\ (testWall \in removedWalls) <=> ~connected
              /\ cellsAreSame <=> connected
    /\ (mazeState = "chain" /\ wallOrder = {[one |-> ChainA, two |-> ChainC]})
       => removedWalls = ChainWalls \ wallOrder
    /\ (mazeState = "chain" /\ wallOrder = {} /\ testWall = [one |-> ChainA, two |-> ChainC])
       => (removedWalls = ChainWalls \ {testWall} /\ cellsAreSame)

\* the chain has been processed with A-C last, and A-C was skipped
C6_Witness ==
    /\ mazeState = "chain"
    /\ wallOrder = {}
    /\ testWall = [one |-> ChainA, two |-> ChainC]
    /\ testWall \notin removedWalls

\* C7: after every wall the merged sets are non-empty and pairwise disjoint, and
\* every cell of the maze is either in the unmerged set and in no merged set,
\* or out of the unmerged set and in exactly one merged set.
C7_CellsInOnePlace ==
    /\ \A j \in 1..Len(mergedCells) : mergedCells[j] # {} /\ mergedCells[j] \subseteq mazeCells
    /\ \A j, k \in 1..Len(mergedCells) : j # k => mergedCells[j] \cap mergedCells[k] = {}
    /\ unmergedCells \subseteq mazeCells
    /\ \A c \in mazeCells :
          Cardinality(Holding(mergedCells, c)) = IF c \in unmergedCells THEN 0 ELSE 1

\* two merged sets, one of them of three cells or more, and unmerged cells left
C7_Witness ==
    /\ mazeState = "grid"
    /\ Len(mergedCells) >= 2
    /\ \E j \in 1..Len(mergedCells) : Cardinality(mergedCells[j]) >= 3
    /\ unmergedCells # {}
    /\ cellsAreSame


\* the wall vector shuffleWalls was called with, in the states in which its
\* draws are steps
ShuffleInput ==
    IF mazeState = "chain"
    THEN ChainWallVector
    ELSE unshuffledWalls(CHOOSE n \in 2..MaxDimension : mazeCells = initialCellList(n))

\* the draws of shuffleWalls are steps in this run, and it has made its last
ShuffleReturned ==
    /\ mazeState \in {"grid", "chain"}
    /\ unshuffledWallVector = << >>
    /\ shuffledWalls # << >>

Occurrences(vec, w) == Cardinality({k \in DOMAIN vec : vec[k] = w})

\* the vectors that hold every entry of vec exactly once
PermutationsOf(vec) ==
    {p \in [DOMAIN vec -> Range(vec)] : \A w \in Range(vec) : Occurrences(p, w) = 1}

\* C17: shuffleWalls returns a permutation of its input, whatever the draws: the
\* result has the length of the input and holds every input wall exactly once;
\* and every permutation of the input is the result of some draws.
C17_ShuffleIsPermutation ==
    /\ ShuffleReturned
       => /\ Len(shuffledWalls) = Len(ShuffleInput)
          /\ \A w \in Range(ShuffleInput) \cup Range(shuffledWalls) :
                Occurrences(shuffledWalls, w) = 1 /\ Occurrences(ShuffleInput, w) = 1
    /\ (mazeState \in {"grid", "chain"} /\ unshuffledWallVector # << >>
          /\ shuffledWalls = << >>)
       => shuffleWalls(unshuffledWallVector) = PermutationsOf(unshuffledWallVector)

\* shuffleWalls has returned the four walls of the 2 x 2 maze with none of them
\* at the index it had
C17_Witness ==
    /\ ShuffleReturned
    /\ mazeState = "grid"
    /\ Len(shuffledWalls) = 4
    /\ \A k \in DOMAIN shuffledWalls : shuffledWalls[k] # ShuffleInput[k]
    /\ wallOrder = Range(shuffledWalls)

\* the merged set that holds the cell
MergedSetOf(merged, c) == CHOOSE m \in Range(merged) : c \in m

\* C18: when a wall is removed the bookkeeping changes as follows and nothing
\* else changes: with both cells unmerged, one new merged set of exactly the two
\* cells is added and both leave the unmerged set; with one cell unmerged, it
\* joins the merged set of the other and leaves the unmerged set; with both in
\* merged sets, the two sets are replaced by their union and there is one
\* merged set less; every other set is untouched.
C18_BookkeepingOfARemovedWall ==
    [][ (testWall' \notin removedWalls /\ removedWalls' = removedWalls \cup {testWall'})
        => LET a == testWall'.one
               b == testWall'.two
               old == Range(mergedCells)
               new == Range(mergedCells')
           IN  /\ mazeCells' = mazeCells
               /\ mazeState' = mazeState
               /\ IF a \in unmergedCells /\ b \in unmergedCells
                  THEN /\ Len(mergedCells') = Len(mergedCells) + 1
                       /\ new = old \cup {{a, b}}
                       /\ unmergedCells' = unmergedCells \ {a, b}
                  ELSE IF a \in unmergedCells \/ b \in unmergedCells
                  THEN LET u == IF a \in unmergedCells THEN a ELSE b
                           m == IF a \in unmergedCells THEN b ELSE a
                       IN  /\ Len(mergedCells') = Len(mergedCells)
                           /\ new = (old \ {MergedSetOf(mergedCells, m)})
                                      \cup {MergedSetOf(mergedCells, m) \cup {u}}
                           /\ unmergedCells' = unmergedCells \ {u}
                  ELSE /\ Len(mergedCells') = Len(mergedCells) - 1
                       /\ MergedSetOf(mergedCells, a) # MergedSetOf(mergedCells, b)
                       /\ new = (old \ {MergedSetOf(mergedCells, a),
                                        MergedSetOf(mergedCells, b)})
                                  \cup {MergedSetOf(mergedCells, a)
                                          \cup MergedSetOf(mergedCells, b)}
                       /\ unmergedCells' = unmergedCells ]_vars

\* the wall just removed joined two merged sets: without it each of its cells
\* is connected to another cell, and not to the other cell of the wall; a third
\* merged set and an unmerged cell are left
C18_Witness ==
    /\ mazeState = "grid"
    /\ testWall \in removedWalls
    /\ Cardinality(ReachFrom(removedWalls \ {testWall}, {testWall.one})) >= 2
    /\ Cardinality(ReachFrom(removedWalls \ {testWall}, {testWall.two})) >= 2
    /\ Len(mergedCells) = 2
    /\ unmergedCells # {}

\* the dimension of the maze being built
MazeDimension == CHOOSE n \in 1..Cardinality(mazeCells) : n * n = Cardinality(mazeCells)

\* d is the east or the south neighbour of c
EastOrSouth(c, d) ==
    \/ (d[1] = c[1] /\ d[2] = c[2] + 1)
    \/ (d[1] = c[1] + 1 /\ d[2] = c[2])

\* C19: for a maze of dimension N the wall list initializeWallsAndChambers
\* builds holds exactly one wall for every pair of orthogonally adjacent cells,
\* from the cell to its east or south neighbour, no other wall and no wall
\* twice, 2*N*(N-1) walls in all, and the cell set holds all the N*N cells.
C19_WallsOfTheGrid ==
    mazeState = "grid"
    => LET n == MazeDimension
           vec == unshuffledWalls(n)
           cells == (0..(n - 1)) \X (0..(n - 1))
       IN  /\ mazeCells = cells
           /\ Len(vec) = 2 * n * (n - 1)
           /\ \A w \in Range(vec) :
                 /\ Occurrences(vec, w) = 1
                 /\ w.one \in cells /\ w.two \in cells
                 /\ EastOrSouth(w.one, w.two)
           /\ \A c, d \in cells :
                 EastOrSouth(c, d)
                 => /\ [one |-> c, two |-> d] \in Range(vec)
                    /\ [one |-> d, two |-> c] \notin Range(vec)
           /\ wallOrder \subseteq Range(vec)
           /\ testWall = << >> => wallOrder = Range(vec)
           /\ Range(unshuffledWallVector) \cup Range(shuffledWalls) \subseteq Range(vec)
           /\ (shuffledWalls = << >> /\ n <= MaxShuffledDimension)
              => unshuffledWallVector = vec

\* initializeWallsAndChambers has returned the four walls of a 2 x 2 maze,
\* shuffled, and none has been processed
C19_Witness ==
    /\ mazeState = "grid"
    /\ Cardinality(mazeCells) = 4
    /\ ShuffleReturned
    /\ Cardinality(Range(shuffledWalls)) = 4
    /\ wallOrder = Range(shuffledWalls)
    /\ testWall = << >>
    /\ removedWalls = {}

\* a guess and a dictionary word with one letter more than the board has
\* cells, so that only the cells of the board can end a descent
CrowdedGuess == [k \in 1..(BoardRows * BoardCols + 1) |-> "A"]
CrowdedLexicon == {toLowerCase(CrowdedGuess)}

\* the depth of the deepest call of the recursive tryPlayerGuess and of
\* generateAllPossibleWords, on every board, with the long word
DeepestPlayerCall(board) == tryPlayerGuessStarts(board, {}, CrowdedGuess, 1).depth
DeepestComputerCall(board) == computerTurn(board, {}, EmptyBag, CrowdedLexicon).depth

SearchDepthWithinCells(boards) ==
    \A board \in boards :
        /\ DeepestPlayerCall(board) <= Cardinality(Cells)
        /\ DeepestComputerCall(board) <= Cardinality(Cells)

\* C22: the core operations terminate.  The player's search and the exhaustive
\* search return on every board, and no call of theirs is deeper than the
\* board has cells.  Every pass of shuffleWalls moves one wall, so that it
\* returns after as many draws as it was given walls.  Every pass of
\* removeSeparatingWalls takes one wall not taken before, the loop is over
\* only when none is left, and on a grid it gets there.
C22_CoreOperationsTerminate ==
    /\ SearchDepthWithinCells([Cells -> Letters])
    /\ [][ unshuffledWallVector # << >>
           => /\ Len(unshuffledWallVector') = Len(unshuffledWallVector) - 1
              /\ Len(shuffledWalls') = Len(shuffledWalls) + 1 ]_vars
    /\ [] (ShuffleReturned => Len(shuffledWalls) = Len(ShuffleInput))
    /\ [][ (unshuffledWallVector = << >> /\ wallOrder # {})
           => /\ testWall' \in wallOrder
              /\ wallOrder' = wallOrder \ {testWall'} ]_vars
    /\ (unshuffledWallVector # << >>) ~> ShuffleReturned
    /\ (mazeState = "grid" /\ wallOrder # {}) ~> (wallOrder = {})

\* the last wall of a 2 x 2 maze has been processed after four draws of
\* shuffleWalls, on a board on which the searches went as deep as it has cells
C22_Witness ==
    /\ mazeState = "grid"
    /\ ShuffleReturned
    /\ Len(shuffledWalls) = 4
    /\ wallOrder = {}
    /\ testWall = shuffledWalls[1]
    /\ \E board \in [Cells -> Letters] :
         /\ DeepestPlayerCall(board) = Cardinality(Cells)
         /\ DeepestComputerCall(board) = Cardinality(Cells)

-----------------------------------------------------------------------------
(* Life: the claims *)

\* the live 8-neighbours of a cell, the cell itself excluded
LiveNeighbours(board, c) ==
    Cardinality({d \in LifeCells : Adjacent8(c, d) /\ board[d] > 0})

\* a step of the model that is a call of createNextBoard
IsGeneration == simState = "running" /\ simState' \in {"running", "ended"}

\* C8: createNextBoard gives every cell the age of the transition rule: with n
\* the number of live in-bounds 8-neighbours, a live cell dies when n is 0 or
\* 1, ages by one when n is 2 or 3 (prior age below kMaxAge), dies when
\* n >= 4; a dead cell is born with age 1 when n = 3 and stays dead otherwise.
C8_TransitionRule ==
    [][ IsGeneration =>
        \A c \in LifeCells :
           LET n == LiveNeighbours(lifeBoard, c)
               old == lifeBoard[c]
               new == lifeBoard'[c]
           IN  /\ (old > 0 /\ n \in {0, 1}) => new = 0
               /\ (old > 0 /\ old < kMaxAge /\ n \in {2, 3}) => new = old + 1
               /\ (old > 0 /\ n >= 4) => new = 0
               /\ (old = 0 /\ n = 3) => new = 1
               /\ (old = 0 /\ n # 3) => new = 0 ]_vars

\* after some generations the board holds a cell that has aged twice, a cell
\* just born and a dead cell
C8_Witness ==
    /\ simState = "running"
    /\ \E c \in LifeCells : lifeBoard[c] = 3
    /\ \E c \in LifeCells : lifeBoard[c] = 1
    /\ \E c \in LifeCells : lifeBoard[c] = 0

\* C9: starting from a board of ages 0 and 1, after any number of generations
\* every age lies between 0 and kMaxAge.
C9_AgesWithinMaxAge ==
    \A c \in DOMAIN lifeBoard : lifeBoard[c] >= 0 /\ lifeBoard[c] <= kMaxAge

\* the orders of the cells the step is compared in: by rows, by rows backwards,
\* by columns, and the cells of even index before those of odd index
ReverseOrder(order) == [k \in 1..Len(order) |-> order[Len(order) + 1 - k]]
LifeColMajor == [k \in 1..(LifeRows * LifeCols) |->
                    <<(k - 1) % LifeRows, (k - 1) \div LifeRows>>]
SelectIndex(order, parity) == SelectSeq([k \in 1..Len(order) |-> k], LAMBDA k : k % 2 = parity)
EvenFirst(order) ==
    LET idx == SelectIndex(order, 0) \o SelectIndex(order, 1)
    IN  [k \in 1..Len(order) |-> order[idx[k]]]
CellOrders == {LifeRowMajor, ReverseOrder(LifeRowMajor), LifeColMajor, EvenFirst(LifeRowMajor)}

\* the board with the cell d made alive if it is dead and dead if it is alive
Flipped(board, d) == [board EXCEPT ![d] = IF @ = 0 THEN 1 ELSE 0]

\* C10: the generation step is synchronous: the board it produces is the one
\* every order of the cells produces, and the new age of a cell does not change
\* when a cell that is neither the cell nor one of its 8 neighbours changes.
C10_Synchronous ==
    [][ IsGeneration =>
        /\ \A order \in CellOrders :
              createNextBoardIn(order, lifeBoard).newBoard = lifeBoard'
        /\ \A c \in LifeCells :
              \A d \in LifeCells :
                 (d # c /\ ~Adjacent8(c, d))
                 => createNextBoard(Flipped(lifeBoard, d)).newBoard[c] = lifeBoard'[c] ]_vars

\* a generation in which a cell died, a cell was born next to it and a cell aged
C10_Witness ==
    /\ simState = "running"
    /\ \E c, d \in LifeCells :
         /\ Adjacent8(c, d)
         /\ lifeBoard[c] = 1
         /\ lifeBoard[d] = 2
    /\ \E c \in LifeCells : lifeBoard[c] = 0 /\ LiveNeighbours(lifeBoard, c) >= 2

\* a generation from the board old to the board new is steady when no live
\* cell died, no cell was born and no new age is nonzero and below kMaxAge
SteadyStep(old, new) ==
    /\ \A c \in LifeCells : ~(old[c] # 0 /\ new[c] = 0)
    /\ \A c \in LifeCells : ~(old[c] = 0 /\ new[c] # 0)
    /\ \A c \in LifeCells : ~(new[c] # 0 /\ new[c] < kMaxAge)

\* C11: createNextBoard reports the simulation as ended if and only if, in that
\* step, no live cell died, no cell was born and no cell has a new age that is
\* nonzero and below kMaxAge.
C11_EndedIffSteady ==
    [][ IsGeneration => (hasSimulationEnded' <=> SteadyStep(lifeBoard, lifeBoard')) ]_vars

\* the board holds one live cell, of age 1
SingleLiveCell(board) ==
    \E c \in LifeCells : board = [d \in LifeCells |-> IF d = c THEN 1 ELSE 0]

\* C12 as stated: a board with a single live cell of age 1 is fully dead after
\* one generation step, and that same step reports the simulation as stabilized.
C12_SingleCellDeadAndStabilized ==
    [][ (IsGeneration /\ SingleLiveCell(lifeBoard))
        => (lifeBoard' = EmptyLifeBoard /\ hasSimulationEnded') ]_vars

\* C12, amended: a board with a single live cell of age 1 is fully dead after
\* one generation step, which reports the simulation as not stabilized (a live
\* cell died); the step after it leaves the board dead and reports
\* stabilization.
C12_SingleCellDiesThenStabilizes ==
    [][ IsGeneration =>
        /\ SingleLiveCell(lifeBoard)
           => (lifeBoard' = EmptyLifeBoard /\ ~hasSimulationEnded')
        /\ (SingleLiveCell(previousBoard) /\ lifeBoard = EmptyLifeBoard)
           => (lifeBoard' = EmptyLifeBoard /\ hasSimulationEnded') ]_vars

\* the single live cell has just died and the loop goes on
C12_Witness ==
    /\ SingleLiveCell(previousBoard)
    /\ lifeBoard = EmptyLifeBoard
    /\ ~hasSimulationEnded
    /\ simState = "running"

\* C13: when a generation step has reported stabilization, the board it
\* produced is a fixed point: createNextBoard applied to it yields a board equal
\* to it in every cell, ages included.
C13_StabilizedIsFixedPoint ==
    hasSimulationEnded => createNextBoard(lifeBoard).newBoard = lifeBoard

\* C14: the generation step is deterministic: a second execution of
\* createNextBoard on the same board gives the board and the flag of the
\* first, whatever the flag holds before the call.
C14_Deterministic ==
    [][ IsGeneration =>
        \A flag \in BOOLEAN :
           createNextBoardCall(lifeBoard, flag)
             = [newBoard |-> lifeBoard', ended |-> hasSimulationEnded'] ]_vars

\* a step on a board with live cells has reported the end of the simulation
C14_Witness ==
    /\ simState = "ended"
    /\ hasSimulationEnded
    /\ \E c \in LifeCells : previousBoard[c] # 0

\* the positions at which one call of createNextBoard reads or writes
\* priorBoard and newBoard: the cell of each pass of its loops (lines 289-295,
\* 313-314) and the positions determineNumNeighbors reads for it
createNextBoardAccess ==
    UNION { {LifeRowMajor[k]}
              \cup determineNumNeighborsReads(LifeRowMajor[k][1], LifeRowMajor[k][2]) :
            k \in DOMAIN LifeRowMajor }

\* C16: no grid access is out of bounds: every position at which the player's
\* search or the computer's search reads boggleBoard, and every position at
\* which the generation step of Life reads or writes its boards, has
\* 0 <= row < numRows and 0 <= col < numCols.
C16_AccessInBounds ==
    /\ \A p \in gridAccess :
          /\ 0 <= p[1] /\ p[1] < BoardRows
          /\ 0 <= p[2] /\ p[2] < BoardCols
    /\ \A p \in createNextBoardAccess :
          /\ 0 <= p[1] /\ p[1] < LifeRows
          /\ 0 <= p[2] /\ p[2] < LifeCols

\* a search of the player that failed after reading every cell of the board,
\* the corners included
C16_Witness ==
    /\ turn = "returned"
    /\ message = "notOnBoard"
    /\ gridAccess = Cells


\* C23: in a run of the simulation, once a generation step has reported that
\* the simulation ended no further generation step is made, and none is made
\* after the user has typed "quit" or clicked on the window; the board then
\* stays the one the last step made.
C23_NoStepAfterTheEnd ==
    /\ [][ IsGeneration => (~hasSimulationEnded /\ simState # "quit") ]_vars
    /\ [][ (hasSimulationEnded \/ simState = "quit")
           => /\ lifeBoard' = lifeBoard
              /\ previousBoard' = previousBoard
              /\ hasSimulationEnded' = hasSimulationEnded ]_vars
    /\ [] (hasSimulationEnded => simState = "ended")
    /\ [] ((simState \in {"ended", "quit"} /\ previousBoard # << >>)
           => lifeBoard = createNextBoard(previousBoard).newBoard)

\* a step has reported the end with cells alive, after steps that did not
C23_Witness ==
    /\ simState = "ended"
    /\ hasSimulationEnded
    /\ \E c \in LifeCells : lifeBoard[c] > 0
    /\ previousBoard # << >>
    /\ previousBoard # lifeBoard


\* every live cell has 2 or 3 live neighbours and no dead cell has exactly 3
StillLife(board) ==
    \A c \in LifeCells :
        IF board[c] > 0
        THEN LiveNeighbours(board, c) \in {2, 3}
        ELSE LiveNeighbours(board, c) # 3

SameAge(board) ==
    \E age \in 1..kMaxAge : \A c \in LifeCells : board[c] \in {0, age}

C25_SameAgeStillLifeStabilizes ==
    (simState = "running" /\ StillLife(lifeBoard) /\ SameAge(lifeBoard))
        ~> (simState \in {"ended", "quit"})


\* why the ages matter: a step made on a still life that has a live cell of
\* age kMaxAge or more reports no stabilization and leaves such a still life
C25_OldStillLifeGoesOn ==
    [][ ( /\ IsGeneration
          /\ StillLife(lifeBoard)
          /\ \E c \in LifeCells : lifeBoard[c] >= kMaxAge
          /\ \E c \in LifeCells : lifeBoard[c] \notin {0, kMaxAge} )
        => /\ ~hasSimulationEnded'
           /\ StillLife(lifeBoard')
           /\ \E c \in LifeCells : lifeBoard'[c] > kMaxAge ]_vars

=============================================================================
